---- MODULE Spec2Model ----
(***************************************************************************)
(* The PTY sidecar of devys: pty-sidecar/src/main.rs.  One acceptor loop   *)
(* (main) and, per accepted connection, one handle_connection task that    *)
(* performs the WebSocket handshake, creates a PtySession (PTY pair plus   *)
(* a zellij child), spawns a PTY reader task and a WebSocket writer task   *)
(* joined by an unbounded channel, and then relays client frames to the    *)
(* PTY until the connection ends.  The session registry is the DashMap of  *)
(* pty-sidecar/src/main_complex.rs.                                        *)
(***************************************************************************)
EXTENDS Integers, Sequences, FiniteSets, TLC

(* ------------------------------ bounds --------------------------------- *)
\* connections the acceptor accepts in a run of the server
MaxConns == 2
\* bytes of client input a session receives in binary frames
MaxInput == 2
\* non-empty reads the reader task of a session gets from the PTY
MaxReads == 2
\* in a run of the whole server: client bytes, PTY reads, and sessions with a
\* text frame in hand or a resize applied, over all sessions
MaxTraffic == 1
\* sweeps of the reaper in a run
MaxSweeps == 2
\* the staleness threshold, in sweeps: an entry is stale once more than this
\* many ticks have passed since its last_activity
StaleSweeps == 1
\* commands sent to the terminal-ui command processor in a run
MaxCommands == 3
\* samples handed to a LatencyTracker in a run
MaxRecords == 3
\* Ping messages a bridge sends in a run
MaxPings == 2
\* connect calls of a bridge that reach the server
MaxSockets == 2
\* how long a run of the bridge lasts, in milliseconds
MaxClock == 3
\* the wall clock when the bridge starts, in milliseconds since the epoch
WallStart == 1000

(* ------------------------- program constants --------------------------- *)
\* vec![0u8; 4096]: the reader task's buffer
BufSize == 4096
\* PtySize { rows: 24, cols: 80, .. } of openpty
DefaultRows == 24
DefaultCols == 80
\* rows and cols of ControlMessage::Resize are u16
U16Max == 65535
\* LatencyTracker: `self.measurements.len() < 1000`
Capacity == 1000
\* LatencyTracker: `duration.as_millis() > 50`
HighLatencyMs == 50
\* PTYBridge: `history.len() > 100`
HistoryCap == 100
\* should_review: `phase.tokens > 20000`
ReviewTokens == 20000

\* the websockets a bridge opens, numbered in the order of its connect calls
Socks == 1..MaxSockets

Conns == 1..MaxConns
\* session ids (Uuid), and the value of a session_id not yet drawn
NoId == <<"none", 0>>
SessionIds == {<<"uuid", i>> : i \in 1..MaxConns}

Min(a, b) == IF a <= b THEN a ELSE b

IsPrefix(s, t) == Len(s) <= Len(t) /\ SubSeq(t, 1, Len(s)) = s

(* --------------------------- client frames ----------------------------- *)
\* payloads of the binary frames a client sends (keyboard input)
Payloads == {<<"a">>, <<"b">>, <<"a", "b">>}

\* the text frames a client sends, as the JSON objects they hold
Texts ==
    { [cmd |-> "resize",  rows |-> 40,    cols |-> 120],
      [cmd |-> "resize",  rows |-> 30,    cols |-> 100],
      [cmd |-> "resize",  rows |-> 65536, cols |-> 80],
      [cmd |-> "ping",    rows |-> 0,     cols |-> 0],
      [cmd |-> "metrics", rows |-> 0,     cols |-> 0],
      [cmd |-> "bogus",   rows |-> 0,     cols |-> 0] }

\* serde_json::from_str::<ControlMessage>: the variant, or Invalid
Invalid == [tag |-> "Invalid", rows |-> 0, cols |-> 0]

\* DecodeControl taking a number too large for u16 modulo 2^16
DecodeControl_Wrapping(t) ==
    CASE t.cmd = "resize" ->
            [tag |-> "Resize", rows |-> t.rows % (U16Max + 1),
                               cols |-> t.cols % (U16Max + 1)]
      [] t.cmd = "ping"    -> [tag |-> "Ping",    rows |-> 0, cols |-> 0]
      [] t.cmd = "pong"    -> [tag |-> "Pong",    rows |-> 0, cols |-> 0]
      [] t.cmd = "metrics" -> [tag |-> "Metrics", rows |-> 0, cols |-> 0]
      [] OTHER             -> Invalid

DecodeControl(t) ==
    CASE t.cmd = "resize" ->
            IF t.rows \in 0..U16Max /\ t.cols \in 0..U16Max
            THEN [tag |-> "Resize", rows |-> t.rows, cols |-> t.cols]
            ELSE Invalid
      [] t.cmd = "ping"    -> [tag |-> "Ping",    rows |-> 0, cols |-> 0]
      [] t.cmd = "pong"    -> [tag |-> "Pong",    rows |-> 0, cols |-> 0]
      [] t.cmd = "metrics" -> [tag |-> "Metrics", rows |-> 0, cols |-> 0]
      [] OTHER             -> Invalid

(* --------------------------- server frames ----------------------------- *)
\* Message::Text(session_msg): {"cmd":"session","id":"<id>"}
SessionFrame(id) == [type |-> "text", cmd |-> "session", id |-> id, off |-> 0, len |-> 0]
\* Message::Text of ControlMessage::Error
ErrorFrame == [type |-> "text", cmd |-> "error", id |-> NoId, off |-> 0, len |-> 0]
\* Message::Text of ControlMessage::Pong: {"cmd":"pong"}
PongFrame == [type |-> "text", cmd |-> "pong", id |-> NoId, off |-> 0, len |-> 0]
\* Message::Text of a MetricsResponse
MetricsFrame == [type |-> "text", cmd |-> "metrics", id |-> NoId, off |-> 0, len |-> 0]
\* Message::Binary(data): data is the chunk of the PTY output stream that
\* starts at offset off and is len bytes long
BinaryFrame(chunk) ==
    [type |-> "binary", cmd |-> "", id |-> NoId, off |-> chunk.off, len |-> chunk.len]

(* ------------------------------- state --------------------------------- *)
VARIABLES
    connection_count,  \* main: connection_count
    sessions,          \* main_complex: the registry (DashMap), as its key set
    handler,           \* where each connection's handle_connection task is
    exit,              \* why handle_connection left (ghost)
    session_id,        \* handle_connection: session_id
    child,             \* PtySession.child
    kills,             \* number of child.kill() calls (ghost)
    pty,               \* PtySession.pty_pair
    geom,              \* size of the PTY master: <<rows, cols>>
    reader,            \* pty_reader_task
    reader_abort,      \* pty_reader_task.abort() was called
    writer,            \* ws_writer_task
    chan,              \* the unbounded channel (tx, rx)
    pty_read,          \* chunks the reader task has read from the PTY (ghost)
    ws_out,            \* frames sent to the client, in order
    client_bin,        \* concatenated payloads of the binary frames received (ghost)
    pty_input,         \* bytes written to the PTY master, in order
    flushed,           \* how many bytes of pty_input a successful flush covers
    msg,               \* the text frame the handler is working on
    now,               \* the clock, in ticks of the reaper's interval
    last_activity,     \* main_complex: SessionState.last_activity of each entry
    active_at,         \* when each session last moved bytes or got a control
                       \* message (ghost)
    acceptor,          \* main: where the accept loop is
    measurements,      \* main_complex: LatencyTracker.measurements, in microseconds
    high_latency_count,\* main_complex: LatencyTracker.high_latency_count
    recorded,          \* every sample handed to record, in order (ghost)
    reported,          \* the line report logged last
    latency_history,   \* terminal-ui PTYBridge.latency_history, in milliseconds
    sample_by,         \* for each sample of latency_history: what recorded it,
                       \* and the round trip it stands for (ghost)
    pings,             \* Ping messages the bridge has sent that are unanswered
    clock,             \* milliseconds since the bridge started
    pings_sent,        \* number of Pings measure_latency has sent (ghost)
    connection,        \* PTYBridge.connection: 0 for None, else the socket held
    connected,         \* PTYBridge.connected
    socket,            \* every websocket connect has opened, and its condition
    task,              \* where each spawned message-handler task is
    lock,              \* which handler task holds the connection lock, 0: none
    call,              \* the PTYBridge method a caller has invoked and that
                       \* has not yet acquired the connection lock
    cmd_queue,         \* terminal-ui DevysCore: the command channel
    handling,          \* the command process_commands is handling
    commands_processed,\* DevysStatus.commands_processed
    error_count,       \* DevysStatus.error_count
    sent_log,          \* every command sent, in order (ghost)
    handled_log,       \* every command whose handler returned, in order, and
                       \* whether it returned Ok (ghost)
    wf_pc,             \* where execute_workflow is
    phases,            \* execute_workflow: phases
    total_tokens,      \* execute_workflow: total_tokens
    wf_result,         \* the WorkflowResult returned
    probe,             \* phases handed to should_review by itself
    probe_review       \* what should_review said of probe

vars == <<connection_count, sessions, handler, exit, session_id, child, kills,
          pty, geom, reader, reader_abort, writer, chan, pty_read, ws_out,
          client_bin, pty_input, flushed, msg, now, last_activity, active_at,
          acceptor, measurements, high_latency_count, recorded, reported,
          latency_history, sample_by, pings, clock, pings_sent, connection,
          connected, socket, task, lock, call, cmd_queue, handling,
          commands_processed, error_count, sent_log, handled_log, wf_pc,
          phases, total_tokens, wf_result, probe, probe_review>>

procVars == <<child, kills, pty>>
taskVars == <<reader, reader_abort, writer, chan>>
inVars   == <<client_bin, pty_input, flushed>>
regVars  == <<sessions, last_activity, now>>
trackerVars == <<measurements, high_latency_count, recorded, reported>>
commandVars == <<cmd_queue, handling, commands_processed, error_count,
                 sent_log, handled_log>>
workflowVars == <<wf_pc, phases, total_tokens, wf_result, probe, probe_review>>
connVars == <<connection, connected, socket, task, lock, call>>
bridgeVars == <<latency_history, sample_by, pings, clock, pings_sent, connVars>>
\* what no step of a connection handler touches
otherVars == <<acceptor, trackerVars, bridgeVars, commandVars, workflowVars>>

\* the state of the sidecar server but for its LatencyTracker
sidecarVars == <<connection_count, handler, exit, session_id, procVars, geom,
                taskVars, pty_read, ws_out, inVars, msg, active_at, regVars,
                acceptor>>

\* reported before report has logged anything
NoReport == [avg |-> -1, min |-> -1, max |-> -1, high |-> -1]

\* msg of a handler that is not working on a text frame
NoText == [cmd |-> "", rows |-> 0, cols |-> 0]

\* everything but main's counter and the handler tasks, before any connection
ServerInit ==
    /\ sessions = {}
    /\ exit = [c \in Conns |-> "none"]
    /\ session_id = [c \in Conns |-> NoId]
    /\ child = [c \in Conns |-> "none"]
    /\ kills = [c \in Conns |-> 0]
    /\ pty = [c \in Conns |-> "none"]
    /\ geom = [c \in Conns |-> <<0, 0>>]
    /\ reader = [c \in Conns |-> "none"]
    /\ reader_abort = [c \in Conns |-> FALSE]
    /\ writer = [c \in Conns |-> "none"]
    /\ chan = [c \in Conns |-> <<>>]
    /\ pty_read = [c \in Conns |-> <<>>]
    /\ ws_out = [c \in Conns |-> <<>>]
    /\ client_bin = [c \in Conns |-> <<>>]
    /\ pty_input = [c \in Conns |-> <<>>]
    /\ flushed = [c \in Conns |-> 0]
    /\ msg = [c \in Conns |-> NoText]
    /\ now = 0
    /\ last_activity = [id \in sessions |-> 0]
    /\ active_at = [c \in Conns |-> 0]

\* LatencyTracker::new
TrackerNew ==
    /\ measurements = <<>>
    /\ high_latency_count = 0
    /\ recorded = <<>>
    /\ reported = NoReport

\* PTYBridge::new, at clock 0
BridgeNew ==
    /\ latency_history = <<>>
    /\ sample_by = <<>>
    /\ pings = <<>>
    /\ clock = 0
    /\ pings_sent = 0
    /\ connection = 0
    /\ connected = FALSE
    /\ socket = [s \in Socks |-> "unused"]
    /\ task = [k \in Socks |-> "none"]
    /\ lock = 0
    /\ call = "idle"

\* wf_result before execute_workflow has returned
NoResult == [phases |-> <<>>, tokens_used |-> 0]

\* DevysCore::new and IntegratedWorkflowController::new
CoreNew ==
    /\ cmd_queue = <<>>
    /\ handling = "none"
    /\ commands_processed = 0
    /\ error_count = 0
    /\ sent_log = <<>>
    /\ handled_log = <<>>
    /\ wf_pc = "idle"
    /\ phases = <<>>
    /\ total_tokens = 0
    /\ wf_result = NoResult
    /\ probe = <<>>
    /\ probe_review = "unasked"

\* main after TcpListener::bind: connection_count = 0, no handler task
ServerStart ==
    /\ ServerInit
    /\ CoreNew
    /\ TrackerNew
    /\ BridgeNew
    /\ acceptor = "accepting"
    /\ connection_count = 0
    /\ handler = [c \in Conns |-> "none"]

(* ------------------------------ helpers -------------------------------- *)
\* NewSessionId giving every session the same id
NewSessionId_Constant == CHOOSE id \in SessionIds : TRUE

\* Uuid::new_v4(): an id no earlier session of the run has
NewSessionId == CHOOSE id \in SessionIds : \A c \in Conns : session_id[c] # id

\* the PTY bytes available when a blocking read returns
Avail == {1, BufSize, BufSize + 1}

\* offset in the PTY output stream of the next byte the reader task reads
ReadOffset(c) ==
    IF pty_read[c] = <<>> THEN 0
    ELSE pty_read[c][Len(pty_read[c])].off + pty_read[c][Len(pty_read[c])].len

\* the sender half tx lives in the reader task
TxAlive(c) == reader[c] \in {"spawned", "running"}

\* the receiver half rx is a local of handle_connection until the writer task
\* takes it, and is dropped with whichever of the two holds it
RxAlive(c) ==
    \/ writer[c] = "running"
    \/ writer[c] = "none" /\ handler[c] \in {"send_session"}

\* DropPtySession with the kill left out: only the PTY pair is released
DropPtySession_NoKill(c) ==
    /\ pty' = [pty EXCEPT ![c] = "closed"]
    /\ UNCHANGED <<child, kills>>

\* DropPtySession killing every running child, not only its own
DropPtySession_KillsAll(c) ==
    /\ child' = [d \in Conns |->
                   IF d = c \/ child[d] = "running" THEN "killed" ELSE child[d]]
    /\ kills' = [d \in Conns |->
                   IF d = c \/ child[d] = "running" THEN kills[d] + 1 ELSE kills[d]]
    /\ pty' = [pty EXCEPT ![c] = "closed"]

\* impl Drop for PtySession, run when handle_connection returns and the last
\* Arc<Mutex<PtySession>> goes: child.kill(), then the PTY pair is released
DropPtySession(c) ==
    /\ child' = [child EXCEPT ![c] = "killed"]
    /\ kills' = [kills EXCEPT ![c] = @ + 1]
    /\ pty' = [pty EXCEPT ![c] = "closed"]

\* pty_reader_task.abort(); ws_writer_task.abort().  A tokio task is cancelled
\* at its next .await: the writer task waits in rx.recv().await or
\* send().await, so it stops and drops rx; the reader task has no .await
\* (block_in_place and the unbounded tx.send are synchronous), so once it has
\* started it runs on until its loop breaks
AbortTasks(c) ==
    /\ reader' = [reader EXCEPT ![c] = IF @ = "spawned" THEN "aborted" ELSE @]
    /\ reader_abort' = [reader_abort EXCEPT ![c] = TRUE]
    /\ writer' = [writer EXCEPT ![c] = IF @ = "running" THEN "aborted" ELSE @]
    /\ chan' = [chan EXCEPT ![c] = <<>>]

\* an early return by `?`: the JoinHandles are dropped, which detaches the
\* tasks and aborts nothing; rx is dropped if the writer task never took it
DetachTasks(c) ==
    /\ UNCHANGED <<reader, reader_abort, writer>>
    /\ chan' = [chan EXCEPT ![c] = IF writer[c] = "none" THEN <<>> ELSE @]

\* handle_connection returns
Return(c, why) ==
    /\ handler' = [handler EXCEPT ![c] = "done"]
    /\ exit' = [exit EXCEPT ![c] = why]

(* ------------------------------ acceptor ------------------------------- *)
\* Accept handing out the counter without incrementing it
Accept_NoIncrement ==
    /\ acceptor = "accepting"
    /\ connection_count < MaxConns
    /\ handler[connection_count + 1] = "none"
    /\ handler' = [handler EXCEPT ![connection_count + 1] = "handshake"]
    /\ UNCHANGED <<connection_count, regVars, otherVars, msg, active_at, exit,
                   session_id, procVars, geom, taskVars, pty_read, ws_out,
                   inVars>>

\* Accept waiting for a worker while a PTY read blocks one
Accept_WhenNoReadBlocks ==
    /\ acceptor = "accepting"
    /\ \A c \in Conns : reader[c] # "running"
    /\ connection_count < MaxConns
    /\ connection_count' = connection_count + 1
    /\ handler' = [handler EXCEPT ![connection_count + 1] = "handshake"]
    /\ UNCHANGED <<regVars, otherVars, msg, active_at, exit, session_id,
                   procVars, geom, taskVars, pty_read, ws_out, inVars>>

\* main: listener.accept() returned Ok
Accept ==
    /\ acceptor = "accepting"
    /\ connection_count < MaxConns
    /\ connection_count' = connection_count + 1
    /\ handler' = [handler EXCEPT ![connection_count + 1] = "handshake"]
    /\ UNCHANGED <<regVars, otherVars, msg, active_at, exit, session_id,
                   procVars, geom, taskVars, pty_read, ws_out, inVars>>

\* AcceptError ending the accept loop, as `while let Ok(..) = accept()` does
AcceptError_Stops ==
    /\ acceptor = "accepting"
    /\ acceptor' = "stopped"
    /\ UNCHANGED <<connection_count, handler, exit, session_id, procVars, geom,
                   taskVars, pty_read, ws_out, inVars, msg, active_at, regVars,
                   trackerVars, bridgeVars, commandVars, workflowVars>>

\* main: listener.accept() returned Err: the error is logged, the loop goes on
AcceptError ==
    /\ acceptor = "accepting"
    /\ UNCHANGED vars

(* --------------------------- handle_connection ------------------------- *)
\* Handshake going on to create the session after a failed handshake
Handshake_FailureIgnored(c) ==
    /\ handler[c] = "handshake"
    /\ handler' = [handler EXCEPT ![c] = "create"]
    /\ \/ UNCHANGED exit
       \/ exit' = [exit EXCEPT ![c] = "handshake_failed"]
    /\ UNCHANGED <<connection_count, regVars, otherVars, msg, active_at,
                   session_id, procVars, geom, taskVars, pty_read, ws_out,
                   inVars>>

\* accept_async(stream).await
Handshake(c) ==
    /\ handler[c] = "handshake"
    /\ \/ /\ handler' = [handler EXCEPT ![c] = "create"]
          /\ UNCHANGED exit
       \/ Return(c, "handshake_failed")
    /\ UNCHANGED <<connection_count, regVars, otherVars, msg, active_at,
                   session_id, procVars, geom, taskVars, pty_read, ws_out,
                   inVars>>

\* Uuid::new_v4() and PtySession::new(session_id)
PtySessionNew(c) ==
    /\ handler[c] = "create"
    /\ session_id' = [session_id EXCEPT ![c] = NewSessionId]
    /\ \/ \* openpty and spawn_command succeed
          /\ pty' = [pty EXCEPT ![c] = "open"]
          /\ child' = [child EXCEPT ![c] = "running"]
          /\ geom' = [geom EXCEPT ![c] = <<DefaultRows, DefaultCols>>]
          /\ handler' = [handler EXCEPT ![c] = "setup"]
          /\ active_at' = [active_at EXCEPT ![c] = now]
          /\ UNCHANGED <<kills, exit>>
       \/ \* openpty fails
          /\ Return(c, "openpty_failed")
          /\ UNCHANGED <<procVars, geom, active_at>>
       \/ \* spawn_command fails: the PTY pair just opened is released
          /\ pty' = [pty EXCEPT ![c] = "closed"]
          /\ Return(c, "spawn_failed")
          /\ UNCHANGED <<child, kills, geom, active_at>>
    /\ UNCHANGED <<connection_count, regVars, otherVars, msg, taskVars,
                   pty_read, ws_out, inVars>>

\* StartReader spawning the writer task too, ahead of the session frame
StartReader_SpawnsWriter(c) ==
    /\ handler[c] = "setup"
    /\ \/ /\ reader' = [reader EXCEPT ![c] = "spawned"]
          /\ writer' = [writer EXCEPT ![c] = "running"]
          /\ handler' = [handler EXCEPT ![c] = "send_session"]
          /\ UNCHANGED <<exit, procVars>>
       \/ \E why \in {"clone_reader_failed", "take_writer_failed"} :
          /\ Return(c, why)
          /\ DropPtySession(c)
          /\ UNCHANGED <<reader, writer>>
    /\ UNCHANGED <<connection_count, regVars, otherVars, msg, active_at,
                   session_id, geom, reader_abort, chan, pty_read, ws_out,
                   inVars>>

\* try_clone_reader()?, take_writer()?, the channel, tokio::spawn of the
\* reader task
StartReader(c) ==
    /\ handler[c] = "setup"
    /\ \/ /\ reader' = [reader EXCEPT ![c] = "spawned"]
          /\ handler' = [handler EXCEPT ![c] = "send_session"]
          /\ UNCHANGED <<exit, procVars>>
       \/ \E why \in {"clone_reader_failed", "take_writer_failed"} :
          /\ Return(c, why)
          /\ DropPtySession(c)
          /\ UNCHANGED reader
    /\ UNCHANGED <<connection_count, regVars, otherVars, msg, active_at,
                   session_id, geom, reader_abort, writer, chan, pty_read,
                   ws_out, inVars>>

\* SendSession whose failed send returns with the session kept alive
SendSession_Leaks(c) ==
    /\ handler[c] = "send_session"
    /\ \/ /\ ws_out' = [ws_out EXCEPT ![c] = Append(@, SessionFrame(session_id[c]))]
          /\ writer' = [writer EXCEPT ![c] = "running"]
          /\ handler' = [handler EXCEPT ![c] = "loop"]
          /\ UNCHANGED <<exit, procVars, reader, reader_abort, chan>>
       \/ /\ Return(c, "session_send_failed")
          /\ DetachTasks(c)
          /\ UNCHANGED <<ws_out, procVars>>
    /\ UNCHANGED <<connection_count, regVars, otherVars, msg, active_at,
                   session_id, geom, pty_read, inVars>>

\* ws_write.send(Message::Text(session_msg)).await?, then tokio::spawn of the
\* writer task
SendSession(c) ==
    /\ handler[c] = "send_session"
    /\ \/ /\ ws_out' = [ws_out EXCEPT ![c] = Append(@, SessionFrame(session_id[c]))]
          /\ writer' = [writer EXCEPT ![c] = "running"]
          /\ handler' = [handler EXCEPT ![c] = "loop"]
          /\ UNCHANGED <<exit, procVars, reader, reader_abort, chan>>
       \/ /\ Return(c, "session_send_failed")
          /\ DropPtySession(c)
          /\ DetachTasks(c)
          /\ UNCHANGED ws_out
    /\ UNCHANGED <<connection_count, regVars, otherVars, msg, active_at,
                   session_id, geom, pty_read, inVars>>

\* WriteAll putting the new bytes in front of those written before
WriteAll_InFront(written, data) == data \o written

\* pty_writer.write_all(&data): data follows the bytes written before
WriteAll(written, data) == written \o data

\* RecvBinary run by a task of its own, also while a text frame is handled
RecvBinary_DuringText(c) ==
    /\ handler[c] \in {"loop", "text"}
    /\ \E data \in Payloads :
       /\ Len(client_bin[c]) + Len(data) <= MaxInput
       /\ client_bin' = [client_bin EXCEPT ![c] = @ \o data]
       /\ active_at' = [active_at EXCEPT ![c] = now]
       /\ pty_input' = [pty_input EXCEPT ![c] = @ \o data]
       /\ flushed' = [flushed EXCEPT ![c] = Len(pty_input[c]) + Len(data)]
    /\ UNCHANGED <<handler, exit, procVars, taskVars, connection_count,
                   regVars, otherVars, msg, session_id, geom, pty_read, ws_out>>

\* Ok(Message::Binary(data)): pty_writer.write_all(&data), pty_writer.flush()?
\* write_all can fail after writing part of data
RecvBinary(c) ==
    /\ handler[c] = "loop"
    /\ \E data \in Payloads :
       /\ Len(client_bin[c]) + Len(data) <= MaxInput
       /\ client_bin' = [client_bin EXCEPT ![c] = @ \o data]
       /\ active_at' = [active_at EXCEPT ![c] = now]
       /\ \/ \* write_all and flush succeed
             /\ pty_input' = [pty_input EXCEPT ![c] = WriteAll(@, data)]
             /\ flushed' = [flushed EXCEPT ![c] = Len(pty_input[c]) + Len(data)]
             /\ UNCHANGED <<handler, exit, procVars, taskVars>>
          \/ \* write_all fails: break
             \E k \in 0..(Len(data) - 1) :
             /\ pty_input' = [pty_input EXCEPT ![c] = WriteAll(@, SubSeq(data, 1, k))]
             /\ handler' = [handler EXCEPT ![c] = "cleanup"]
             /\ exit' = [exit EXCEPT ![c] = "write_error"]
             /\ UNCHANGED <<flushed, procVars, taskVars>>
          \/ \* flush fails: return by `?`
             /\ pty_input' = [pty_input EXCEPT ![c] = WriteAll(@, data)]
             /\ Return(c, "flush_error")
             /\ DropPtySession(c)
             /\ DetachTasks(c)
             /\ UNCHANGED flushed
    /\ UNCHANGED <<connection_count, regVars, otherVars, msg, session_id,
                   geom, pty_read, ws_out>>

\* Resize with rows and cols taken in the other order
Resize_Swapped(c, rows, cols) == geom' = [geom EXCEPT ![c] = <<cols, rows>>]

\* PtySession::resize: pty_pair.master.resize(PtySize { rows, cols, .. })
Resize(c, rows, cols) == geom' = [geom EXCEPT ![c] = <<rows, cols>>]

\* Ok(Message::Text(text)): the loop takes a text frame from the client
RecvText(c) ==
    /\ handler[c] = "loop"
    /\ \E text \in Texts : msg' = [msg EXCEPT ![c] = text]
    /\ handler' = [handler EXCEPT ![c] = "text"]
    /\ UNCHANGED <<connection_count, regVars, otherVars, active_at, exit,
                   session_id, procVars, geom, taskVars, pty_read, ws_out,
                   inVars>>

\* HandleResize announcing the new size to the child in band, as an escape
\* sequence written to the PTY
HandleResize_InBand(c, rows, cols) ==
    \/ /\ Resize(c, rows, cols)
       /\ pty_input' = [pty_input EXCEPT ![c] = WriteAll(@, <<"esc">>)]
       /\ handler' = [handler EXCEPT ![c] = "loop"]
       /\ UNCHANGED <<exit, procVars, taskVars, client_bin, flushed>>
    \/ /\ Return(c, "resize_error")
       /\ DropPtySession(c)
       /\ DetachTasks(c)
       /\ UNCHANGED <<geom, inVars>>

\* the Resize arm: pty_session_clone.lock().await, session.resize(rows, cols)?
HandleResize(c, rows, cols) ==
    \/ /\ Resize(c, rows, cols)
       /\ handler' = [handler EXCEPT ![c] = "loop"]
       /\ UNCHANGED <<exit, procVars, taskVars, inVars>>
    \/ \* master.resize fails: return by `?`
       /\ Return(c, "resize_error")
       /\ DropPtySession(c)
       /\ DetachTasks(c)
       /\ UNCHANGED <<geom, inVars>>

\* the body of the Text arm: serde_json::from_str, and of the control
\* messages only a Resize is acted on (`_ => {}` for the others)
HandleText(c) ==
    /\ handler[c] = "text"
    /\ msg' = [msg EXCEPT ![c] = NoText]
    /\ LET ctrl == DecodeControl(msg[c]) IN
       /\ IF ctrl.tag = "Resize"
          THEN HandleResize(c, ctrl.rows, ctrl.cols)
          ELSE /\ handler' = [handler EXCEPT ![c] = "loop"]
               /\ UNCHANGED <<exit, procVars, taskVars, geom, inVars>>
       /\ active_at' = [active_at EXCEPT ![c] = IF ctrl = Invalid THEN @ ELSE now]
    /\ UNCHANGED <<connection_count, regVars, otherVars, session_id, pty_read,
                   ws_out>>

\* Ok(Message::Close(_)), Err(e), and the end of the stream (None): the loop ends
RecvClose(c) ==
    /\ handler[c] = "loop"
    /\ \E why \in {"close", "ws_error", "stream_end"} :
          exit' = [exit EXCEPT ![c] = why]
    /\ handler' = [handler EXCEPT ![c] = "cleanup"]
    /\ UNCHANGED <<connection_count, regVars, otherVars, msg, active_at,
                   session_id, procVars, geom, taskVars, pty_read, ws_out,
                   inVars>>

\* any other message (a WebSocket Ping, Pong or raw frame): `_ => {}`
RecvOther(c) ==
    /\ handler[c] = "loop"
    /\ UNCHANGED vars

\* the abort calls after the loop, then the return, which drops the session
Cleanup(c) ==
    /\ handler[c] = "cleanup"
    /\ AbortTasks(c)
    /\ DropPtySession(c)
    /\ handler' = [handler EXCEPT ![c] = "done"]
    /\ UNCHANGED <<connection_count, regVars, otherVars, msg, active_at, exit,
                   session_id, geom, pty_read, ws_out, inVars>>

(* --------------------------- pty_reader_task --------------------------- *)
\* the runtime polls the spawned task for the first time
ReaderStart(c) ==
    /\ reader[c] = "spawned"
    /\ reader' = [reader EXCEPT ![c] = "running"]
    /\ UNCHANGED <<connection_count, regVars, otherVars, msg, active_at,
                   handler, exit, session_id, procVars, geom, reader_abort,
                   writer, chan, pty_read, ws_out, inVars>>

\* ChannelSend putting the chunk at the front of the channel
ChannelSend_AtFront(q, chunk) == <<chunk>> \o q

\* tx.send(buffer[..n].to_vec()): the chunk goes to the back of the channel
ChannelSend(q, chunk) == Append(q, chunk)

\* a turn of the loop in which read gives Ok(n), n > 0: tx.send(chunk), and
\* break if the receiver is gone
ReaderRead(c) ==
    /\ reader[c] = "running"
    /\ Len(pty_read[c]) < MaxReads
    /\ \E avail \in Avail :
       LET chunk == [off |-> ReadOffset(c), len |-> Min(avail, BufSize)] IN
       /\ pty_read' = [pty_read EXCEPT ![c] = Append(@, chunk)]
       /\ active_at' = [active_at EXCEPT ![c] = now]
       /\ IF RxAlive(c)
          THEN /\ chan' = [chan EXCEPT ![c] = ChannelSend(@, chunk)]
               /\ UNCHANGED reader
          ELSE /\ reader' = [reader EXCEPT ![c] = "send_failed"]
               /\ UNCHANGED chan
    /\ UNCHANGED <<connection_count, regVars, otherVars, msg, handler, exit,
                   session_id, procVars, geom, reader_abort, writer, ws_out,
                   inVars>>

\* a turn of the loop in which read gives Ok(0) or Err(e): break
ReaderEnd(c) ==
    /\ reader[c] = "running"
    /\ \E r \in {"eof", "read_error"} : reader' = [reader EXCEPT ![c] = r]
    /\ UNCHANGED <<connection_count, regVars, otherVars, msg, active_at,
                   handler, exit, session_id, procVars, geom, reader_abort,
                   writer, chan, pty_read, ws_out, inVars>>

(* ---------------------------- ws_writer_task --------------------------- *)
\* one turn of the loop: rx.recv().await, then ws_write.send(Message::Binary)
WriterStep(c) ==
    /\ writer[c] = "running"
    /\ IF chan[c] # <<>>
       THEN /\ chan' = [chan EXCEPT ![c] = Tail(@)]
            /\ \/ /\ ws_out' = [ws_out EXCEPT ![c] = Append(@, BinaryFrame(Head(chan[c])))]
                  /\ active_at' = [active_at EXCEPT ![c] = now]
                  /\ UNCHANGED writer
               \/ \* send fails: break, and rx is dropped with the task
                  /\ writer' = [writer EXCEPT ![c] = "send_error"]
                  /\ chan' = [chan EXCEPT ![c] = <<>>]
                  /\ UNCHANGED <<ws_out, active_at>>
       ELSE \* recv() gives None once every sender is gone
            /\ ~TxAlive(c)
            /\ writer' = [writer EXCEPT ![c] = "recv_none"]
            /\ UNCHANGED <<chan, ws_out, active_at>>
    /\ UNCHANGED <<connection_count, regVars, otherVars, msg, handler, exit,
                   session_id, procVars, geom, reader, reader_abort, pty_read,
                   inVars>>

(* ---------------------------- specification ---------------------------- *)
\* the steps of connection c that wait for nothing outside the server
ServerStep(c) ==
    \/ PtySessionNew(c)
    \/ StartReader(c)
    \/ SendSession(c)
    \/ HandleText(c)
    \/ Cleanup(c)
    \/ ReaderStart(c)
    \/ WriterStep(c)

\* every step of connection c but those that take a data or text frame of the
\* client or PTY output
Quiet(c) ==
    \/ Handshake(c)
    \/ PtySessionNew(c)
    \/ StartReader(c)
    \/ SendSession(c)
    \/ HandleText(c)
    \/ RecvClose(c)
    \/ RecvOther(c)
    \/ Cleanup(c)
    \/ ReaderStart(c)
    \/ ReaderEnd(c)
    \/ WriterStep(c)

\* one handle_connection task, from the moment main has spawned it for the
\* first connection, with the two tasks it spawns
Init ==
    /\ ServerInit
    /\ CoreNew
    /\ TrackerNew
    /\ BridgeNew
    /\ acceptor = "accepting"
    /\ connection_count = 1
    /\ handler = [c \in Conns |-> IF c = 1 THEN "handshake" ELSE "none"]

Next ==
    \E c \in Conns :
       \/ Handshake(c)
       \/ PtySessionNew(c)
       \/ StartReader(c)
       \/ SendSession(c)
       \/ RecvBinary(c)
       \/ RecvText(c)
       \/ HandleText(c)
       \/ RecvClose(c)
       \/ RecvOther(c)
       \/ Cleanup(c)
       \/ ReaderStart(c)
       \/ ReaderRead(c)
       \/ ReaderEnd(c)
       \/ WriterStep(c)

Spec == Init /\ [][Next]_vars

\* the runtime runs every task that is ready; nothing makes a client send or
\* a PTY read return
FairSpec == Spec /\ \A c \in Conns : WF_vars(ServerStep(c))

(* --------------------------- LatencyTracker ---------------------------- *)
\* the durations handed to record, in microseconds
Samples == {10000, 20000, 50000, 50500, 60000}

\* Duration::as_millis: whole milliseconds, the rest cut off
AsMillis(d) == d \div 1000

\* self.measurements.iter().sum(), by halves
RECURSIVE SumRange(_, _, _)
SumRange(ms, lo, hi) ==
    IF lo > hi THEN 0
    ELSE IF lo = hi THEN ms[lo]
    ELSE LET mid == (lo + hi) \div 2 IN
         SumRange(ms, lo, mid) + SumRange(ms, mid + 1, hi)

Sum(ms) == SumRange(ms, 1, Len(ms))

\* Average over the capacity of the history instead of its length
Average_OverCapacity(ms) == Sum(ms) \div Capacity

\* total / self.measurements.len() as u32
Average(ms) == Sum(ms) \div Len(ms)

\* self.measurements.iter().min() and .max()
MinOf(ms) == CHOOSE x \in {ms[i] : i \in 1..Len(ms)} : \A i \in 1..Len(ms) : x <= ms[i]
MaxOf(ms) == CHOOSE x \in {ms[i] : i \in 1..Len(ms)} : \A i \in 1..Len(ms) : x >= ms[i]

\* the samples record has been handed since the tracker of this run started
Fed ==
    IF Len(recorded) < Capacity - 1 THEN Len(recorded)
    ELSE Len(recorded) - (Capacity - 1)

\* LatencyTracker::record(duration)
Record(d) ==
    /\ Fed < MaxRecords
    /\ measurements' = IF Len(measurements) < Capacity
                       THEN Append(measurements, d)
                       ELSE measurements
    /\ high_latency_count' = IF AsMillis(d) > HighLatencyMs
                             THEN high_latency_count + 1
                             ELSE high_latency_count
    /\ recorded' = Append(recorded, d)
    /\ UNCHANGED <<reported, sidecarVars, commandVars, workflowVars, bridgeVars>>

\* LatencyTracker::report(): nothing if the history is empty, else one line
Report ==
    /\ reported' =
          IF measurements = <<>> THEN reported
          ELSE [avg  |-> AsMillis(Average(measurements)),
                min  |-> AsMillis(MinOf(measurements)),
                max  |-> AsMillis(MaxOf(measurements)),
                high |-> high_latency_count]
    /\ UNCHANGED <<measurements, high_latency_count, recorded, sidecarVars, commandVars, workflowVars,
                   bridgeVars>>

\* a tracker that is new, or one sample short of full after Capacity - 1
\* equal samples, next to a server that has accepted nothing
TrackerInit ==
    /\ ServerInit
    /\ CoreNew
    /\ connection_count = 0
    /\ handler = [c \in Conns |-> "none"]
    /\ acceptor = "accepting"
    /\ BridgeNew
    /\ reported = NoReport
    /\ \/ measurements = <<>>
       \/ \E d \in {10000, 60000} : measurements = [i \in 1..(Capacity - 1) |-> d]
    /\ recorded = measurements
    /\ high_latency_count =
          IF measurements # <<>> /\ AsMillis(measurements[1]) > HighLatencyMs
          THEN Len(measurements) ELSE 0

TrackerNext == Report \/ \E d \in Samples : Record(d)

TrackerSpec == TrackerInit /\ [][TrackerNext]_vars

(* ------------------------ terminal-ui PTYBridge ------------------------ *)
\* PushSample making room by removing the newest of the old samples
PushSample_EvictsNewest(h, x) ==
    IF Len(h) + 1 > HistoryCap
    THEN Append(SubSeq(h, 1, Len(h) - 1), x)
    ELSE Append(h, x)

\* history.push(latency), and history.remove(0) once there are more than 100
PushSample(h, x) ==
    IF Len(h) + 1 > HistoryCap THEN Tail(Append(h, x)) ELSE Append(h, x)

\* time passes
Tick ==
    /\ clock < MaxClock
    /\ clock' = clock + 1
    /\ UNCHANGED <<latency_history, sample_by, pings, pings_sent, connVars,
                   sidecarVars, commandVars, workflowVars, trackerVars>>

\* the methods of PTYBridge that take the connection lock
Methods == {"connect", "disconnect", "send_input", "resize_pty", "measure_latency"}

\* a caller invokes a method; the method runs once it has the connection lock
Invoke ==
    /\ call = "idle"
    /\ \E m \in Methods : call' = m
    /\ UNCHANGED <<latency_history, sample_by, pings, clock, pings_sent,
                   connection, connected, socket, task, lock, sidecarVars, commandVars, workflowVars,
                   trackerVars>>

\* a connection is held and its websocket is in condition how
SocketIs(how) == IF connection = 0 THEN FALSE ELSE socket[connection] = how

\* the websocket the next successful connect_async returns
NewSocket ==
    CHOOSE s \in Socks :
       socket[s] = "unused" /\ \A t \in 1..(s - 1) : socket[t] # "unused"

\* a PTYConnection is dropped: its websocket is closed
DropConnection(sk, s) == IF s = 0 THEN sk ELSE [sk EXCEPT ![s] = "closed"]

\* PTYBridge::connect: connect_async, then under the connection lock the new
\* connection replaces the old one, the Connect message is sent, connected is
\* set and a message-handler task is spawned
Connect ==
    /\ call = "connect"
    /\ call' = "idle"
    /\ \/ \* connect_async fails
          UNCHANGED <<connection, connected, socket, task, lock, pings>>
       \/ /\ lock = 0
          /\ \E s \in Socks : socket[s] = "unused"
          /\ connection' = NewSocket
          /\ pings' = <<>>
          /\ \/ \* sending the Connect message fails: return by `?`
                /\ socket' = [DropConnection(socket, connection)
                                 EXCEPT ![NewSocket] = "broken"]
                /\ UNCHANGED <<connected, task>>
             \/ /\ socket' = [DropConnection(socket, connection)
                                 EXCEPT ![NewSocket] = "open"]
                /\ connected' = TRUE
                /\ task' = [task EXCEPT ![NewSocket] = "check"]
          /\ UNCHANGED lock
    /\ UNCHANGED <<latency_history, sample_by, clock, pings_sent, sidecarVars, commandVars, workflowVars,
                   trackerVars>>

\* PTYBridge::disconnect: the connection is taken out, Disconnect is sent and
\* the socket closed, each with `?`; then connected is cleared
Disconnect ==
    /\ call = "disconnect"
    /\ lock = 0
    /\ call' = "idle"
    /\ connection' = 0
    /\ socket' = DropConnection(socket, connection)
    /\ pings' = <<>>
    /\ \/ \* no connection, or send and close succeed
          /\ connection = 0 \/ SocketIs("open")
          /\ connected' = FALSE
       \/ \* send or close fails: return by `?`
          /\ connection # 0
          /\ UNCHANGED connected
    /\ UNCHANGED <<latency_history, sample_by, clock, pings_sent, task, lock,
                   sidecarVars, commandVars, workflowVars, trackerVars>>

\* PTYBridge::send_input: an Input message is sent on the connection held
SendInput ==
    /\ call = "send_input"
    /\ lock = 0
    /\ call' = "idle"
    /\ UNCHANGED <<latency_history, sample_by, pings, clock, pings_sent,
                   connection, connected, socket, task, lock, sidecarVars, commandVars, workflowVars,
                   trackerVars>>

\* PTYBridge::resize_pty: a Resize message is sent on the connection held
ResizePty ==
    /\ call = "resize_pty"
    /\ lock = 0
    /\ call' = "idle"
    /\ UNCHANGED <<latency_history, sample_by, pings, clock, pings_sent,
                   connection, connected, socket, task, lock, sidecarVars, commandVars, workflowVars,
                   trackerVars>>

\* PTYBridge::measure_latency: a Ping whose data is start.elapsed() taken
\* right after start is sent, the send takes d milliseconds, and
\* start.elapsed() after the send is pushed to the history; without a
\* connection, or when the send fails, nothing is recorded
MeasureLatency ==
    /\ call = "measure_latency"
    /\ lock = 0
    /\ call' = "idle"
    /\ \/ /\ ~SocketIs("open")
          /\ UNCHANGED <<latency_history, sample_by, pings, clock, pings_sent>>
       \/ /\ SocketIs("open")
          /\ pings_sent < MaxPings
          /\ \E d \in 0..1 :
             /\ clock + d <= MaxClock
             /\ clock' = clock + d
             /\ pings' = Append(pings, [data |-> 0, sent |-> clock + d])
             /\ latency_history' = PushSample(latency_history, d)
             /\ sample_by' = PushSample(sample_by, [by |-> "measure_latency", rtt |-> -1])
          /\ pings_sent' = pings_sent + 1
    /\ UNCHANGED <<connection, connected, socket, task, lock, sidecarVars, commandVars, workflowVars,
                   trackerVars>>

\* the handler task, top of its loop: break when connected is false
HandlerCheck(k) ==
    /\ task[k] = "check"
    /\ task' = [task EXCEPT ![k] = IF connected THEN "lock" ELSE "stopped"]
    /\ UNCHANGED <<latency_history, sample_by, pings, clock, pings_sent,
                   connection, connected, socket, lock, call, sidecarVars, commandVars, workflowVars,
                   trackerVars>>

\* the handler task takes the connection lock: with a connection it awaits
\* websocket.next() with the lock held, without one it sleeps 100 ms
HandlerLock(k) ==
    /\ task[k] = "lock"
    /\ lock = 0
    /\ call = "idle"
    /\ IF connection # 0
       THEN /\ lock' = k
            /\ task' = [task EXCEPT ![k] = "waiting"]
       ELSE /\ task' = [task EXCEPT ![k] = "sleep"]
            /\ UNCHANGED lock
    /\ UNCHANGED <<latency_history, sample_by, pings, clock, pings_sent,
                   connection, connected, socket, call, sidecarVars, commandVars, workflowVars,
                   trackerVars>>

\* the 100 ms sleep of the handler task is over
HandlerWake(k) ==
    /\ task[k] = "sleep"
    /\ task' = [task EXCEPT ![k] = "check"]
    /\ UNCHANGED <<latency_history, sample_by, pings, clock, pings_sent,
                   connection, connected, socket, lock, call, sidecarVars, commandVars, workflowVars,
                   trackerVars>>

\* the handler task has its message handled and lets go of the lock
Handled(k) ==
    /\ lock' = 0
    /\ task' = [task EXCEPT ![k] = "check"]

\* handle_message, Pong arm: the server answers the oldest unanswered Ping and
\* echoes its data; the sample is the wall clock less the number in data
HandlePong(k) ==
    /\ task[k] = "waiting"
    /\ SocketIs("open")
    /\ pings # <<>>
    /\ LET ping == Head(pings) IN
       /\ latency_history' =
             PushSample(latency_history, (WallStart + clock) - ping.data)
       /\ sample_by' =
             PushSample(sample_by, [by |-> "pong", rtt |-> clock - ping.sent])
    /\ pings' = Tail(pings)
    /\ Handled(k)
    /\ UNCHANGED <<clock, pings_sent, connection, connected, socket, call,
                   sidecarVars, commandVars, workflowVars, trackerVars>>

\* handle_message, the other arms (Output, Binary, Ping, Close...): logged
HandleOther(k) ==
    /\ task[k] = "waiting"
    /\ SocketIs("open")
    /\ Handled(k)
    /\ UNCHANGED <<latency_history, sample_by, pings, clock, pings_sent,
                   connection, connected, socket, call, sidecarVars, commandVars, workflowVars,
                   trackerVars>>

\* websocket.next() yields None, the end of the stream: no arm of the
\* handler's loop, which goes round again
HandlerStreamEnd(k) ==
    /\ task[k] = "waiting"
    /\ SocketIs("ended")
    /\ Handled(k)
    /\ UNCHANGED <<latency_history, sample_by, pings, clock, pings_sent,
                   connection, connected, socket, call, sidecarVars, commandVars, workflowVars,
                   trackerVars>>

\* websocket.next() yields Err: connected is cleared and the loop left
HandlerStreamError(k) ==
    /\ task[k] = "waiting"
    /\ SocketIs("broken")
    /\ lock' = 0
    /\ task' = [task EXCEPT ![k] = "stopped"]
    /\ connected' = FALSE
    /\ UNCHANGED <<latency_history, sample_by, pings, clock, pings_sent,
                   connection, socket, call, sidecarVars, commandVars, workflowVars, trackerVars>>

\* the steps handler task k takes by itself
HandlerStep(k) ==
    \/ HandlerCheck(k)
    \/ HandlerLock(k)
    \/ HandlerWake(k)
    \/ HandlerStreamEnd(k)
    \/ HandlerStreamError(k)

\* the server ends the connection: the stream of the socket will yield the
\* end of the stream, or an error
ServerEnds ==
    /\ SocketIs("open")
    /\ \E how \in {"ended", "broken"} :
          socket' = [socket EXCEPT ![connection] = how]
    /\ pings' = <<>>
    /\ UNCHANGED <<latency_history, sample_by, clock, pings_sent, connection,
                   connected, task, lock, call, sidecarVars, commandVars, workflowVars, trackerVars>>

\* a bridge just constructed, next to a sidecar that has accepted nothing
BridgeInit ==
    /\ ServerInit
    /\ CoreNew
    /\ connection_count = 0
    /\ handler = [c \in Conns |-> "none"]
    /\ acceptor = "accepting"
    /\ TrackerNew
    /\ BridgeNew

\* the methods, once invoked
MethodRuns == Connect \/ Disconnect \/ SendInput \/ ResizePty \/ MeasureLatency

BridgeNext ==
    \/ Tick
    \/ Invoke
    \/ MethodRuns
    \/ ServerEnds
    \/ \E k \in Socks : HandlerStep(k) \/ HandlePong(k) \/ HandleOther(k)

BridgeSpec == BridgeInit /\ [][BridgeNext]_vars

\* a connected bridge whose handler task runs and whose history is one sample
\* short of full, after HistoryCap - 1 measure_latency calls of 0 or 1 ms
HistoryInit ==
    /\ ServerInit
    /\ CoreNew
    /\ connection_count = 0
    /\ handler = [c \in Conns |-> "none"]
    /\ acceptor = "accepting"
    /\ TrackerNew
    /\ latency_history = [i \in 1..(HistoryCap - 1) |-> i % 2]
    /\ sample_by = [i \in 1..(HistoryCap - 1) |->
                       [by |-> "measure_latency", rtt |-> -1]]
    /\ pings = <<>>
    /\ clock = 0
    /\ pings_sent = 0
    /\ connection = 1
    /\ connected = TRUE
    /\ socket = [s \in Socks |-> IF s = 1 THEN "open" ELSE "unused"]
    /\ task = [k \in Socks |-> IF k = 1 THEN "check" ELSE "none"]
    /\ lock = 0
    /\ call = "idle"

HistorySpec == HistoryInit /\ [][BridgeNext]_vars

\* the runtime runs a ready handler task, and the connection lock (a tokio
\* RwLock, which serves its waiters in turn) is given to a handler task or to
\* an invoked method that the lock is free for again and again; nothing makes
\* the server send or a caller call
BridgeFairSpec ==
    /\ BridgeSpec
    /\ \A k \in Socks : SF_vars(HandlerStep(k))
    /\ SF_vars(MethodRuns)

(* ----------------- terminal-ui DevysCore: command processor ------------- *)
\* DevysCommand, by variant
Commands ==
    {"Initialize", "ExecuteWorkflow", "ToggleGruntMode", "ShowStatus", "Shutdown"}

\* the commands whose handler has a `?` that can return an error:
\* toggle_grunt_mode and show_status only touch the status
CanFail(cmd) == cmd \notin {"ToggleGruntMode", "ShowStatus"}

\* command_sender.send(cmd), from main, a keybinding or the ctrl-c task
SendCommand(cmd) ==
    /\ handling # "exited"
    /\ Len(sent_log) < MaxCommands
    /\ cmd_queue' = Append(cmd_queue, cmd)
    /\ sent_log' = Append(sent_log, cmd)
    /\ UNCHANGED <<handling, commands_processed, error_count, handled_log,
                   workflowVars, sidecarVars, trackerVars, bridgeVars>>

\* HandleCommand counting a failed command in both counters
HandleCommand_CountsTwice ==
    /\ handling \in Commands
    /\ \/ /\ handling # "Shutdown"
          /\ commands_processed' = commands_processed + 1
          /\ handled_log' = Append(handled_log, [cmd |-> handling, ok |-> TRUE])
          /\ handling' = "none"
          /\ UNCHANGED error_count
       \/ /\ CanFail(handling)
          /\ error_count' = error_count + 1
          /\ commands_processed' = commands_processed + 1
          /\ handled_log' = Append(handled_log, [cmd |-> handling, ok |-> FALSE])
          /\ handling' = "none"
       \/ /\ handling = "Shutdown"
          /\ handling' = "exited"
          /\ UNCHANGED <<commands_processed, error_count, handled_log>>
    /\ UNCHANGED <<cmd_queue, sent_log, workflowVars, sidecarVars, trackerVars,
                   bridgeVars>>

\* process_commands: receiver.recv() hands over the oldest command sent
Recv ==
    /\ handling = "none"
    /\ cmd_queue # <<>>
    /\ handling' = Head(cmd_queue)
    /\ cmd_queue' = Tail(cmd_queue)
    /\ UNCHANGED <<commands_processed, error_count, sent_log, handled_log,
                   workflowVars, sidecarVars, trackerVars, bridgeVars>>

\* process_commands: handle_command(command).await returns Ok, and
\* commands_processed is incremented, or Err, and error_count is; a Shutdown
\* that succeeds ends in std::process::exit(0) and never returns
HandleCommand ==
    /\ handling \in Commands
    /\ \/ /\ handling # "Shutdown"
          /\ commands_processed' = commands_processed + 1
          /\ handled_log' = Append(handled_log, [cmd |-> handling, ok |-> TRUE])
          /\ handling' = "none"
          /\ UNCHANGED error_count
       \/ /\ CanFail(handling)
          /\ error_count' = error_count + 1
          /\ handled_log' = Append(handled_log, [cmd |-> handling, ok |-> FALSE])
          /\ handling' = "none"
          /\ UNCHANGED commands_processed
       \/ /\ handling = "Shutdown"
          /\ handling' = "exited"
          /\ UNCHANGED <<commands_processed, error_count, handled_log>>
    /\ UNCHANGED <<cmd_queue, sent_log, workflowVars, sidecarVars, trackerVars,
                   bridgeVars>>

\* a DevysCore just constructed, next to a sidecar that has accepted nothing
CommandInit ==
    /\ ServerInit
    /\ CoreNew
    /\ connection_count = 0
    /\ handler = [c \in Conns |-> "none"]
    /\ acceptor = "accepting"
    /\ TrackerNew
    /\ BridgeNew

CommandNext == Recv \/ HandleCommand \/ \E cmd \in Commands : SendCommand(cmd)

CommandSpec == CommandInit /\ [][CommandNext]_vars

(* ----------- terminal-ui IntegratedWorkflowController ------------------- *)
\* the WorkflowPhase each execute_*_phase returns (cost and duration left out)
PlanPhase   == [mode |-> "PLAN",   tokens |-> 50000, success |-> TRUE]
EditPhase   == [mode |-> "EDIT",   tokens |-> 25000, success |-> TRUE]
ReviewPhase == [mode |-> "REVIEW", tokens |-> 15000, success |-> TRUE]
GruntPhase  == [mode |-> "GRUNT",  tokens |-> 5000,  success |-> TRUE]

\* should_review reviewing from 20000 tokens on
ShouldReview_FromThreshold(ps) ==
    \E i \in 1..Len(ps) :
       ps[i].mode = "EDIT" /\ (ps[i].tokens >= ReviewTokens \/ ~ps[i].success)

\* should_review
ShouldReview(ps) ==
    \E i \in 1..Len(ps) :
       ps[i].mode = "EDIT" /\ (ps[i].tokens > ReviewTokens \/ ~ps[i].success)

\* phases.push(phase); total_tokens += phase.tokens
PushPhase(phase) ==
    /\ phases' = Append(phases, phase)
    /\ total_tokens' = total_tokens + phase.tokens

\* execute_workflow is called
StartWorkflow ==
    /\ wf_pc = "idle"
    /\ wf_pc' = "plan"
    /\ phases' = <<>>
    /\ total_tokens' = 0
    /\ UNCHANGED <<wf_result, probe, probe_review, commandVars, sidecarVars,
                   trackerVars, bridgeVars>>

\* execute_workflow: PLAN phase
ExecutePlanPhase ==
    /\ wf_pc = "plan"
    /\ PushPhase(PlanPhase)
    /\ wf_pc' = "edit"
    /\ UNCHANGED <<wf_result, probe, probe_review, commandVars, sidecarVars,
                   trackerVars, bridgeVars>>

\* execute_workflow: EDIT phase
ExecuteEditPhase ==
    /\ wf_pc = "edit"
    /\ PushPhase(EditPhase)
    /\ wf_pc' = "review"
    /\ UNCHANGED <<wf_result, probe, probe_review, commandVars, sidecarVars,
                   trackerVars, bridgeVars>>

\* execute_workflow: REVIEW phase, if should_review(&phases)
ExecuteReviewPhase ==
    /\ wf_pc = "review"
    /\ IF ShouldReview(phases)
       THEN PushPhase(ReviewPhase)
       ELSE UNCHANGED <<phases, total_tokens>>
    /\ wf_pc' = "grunt"
    /\ UNCHANGED <<wf_result, probe, probe_review, commandVars, sidecarVars,
                   trackerVars, bridgeVars>>

\* execute_workflow: GRUNT phase, and the WorkflowResult returned
ExecuteGruntPhase ==
    /\ wf_pc = "grunt"
    /\ PushPhase(GruntPhase)
    /\ wf_result' = [phases |-> phases', tokens_used |-> total_tokens']
    /\ wf_pc' = "done"
    /\ UNCHANGED <<probe, probe_review, commandVars, sidecarVars, trackerVars,
                   bridgeVars>>

\* should_review applied to the phases in probe
AskShouldReview ==
    /\ probe_review = "unasked"
    /\ probe # <<>>
    /\ probe_review' = IF ShouldReview(probe) THEN "review" ELSE "no review"
    /\ UNCHANGED <<wf_pc, phases, total_tokens, wf_result, probe, commandVars,
                   sidecarVars, trackerVars, bridgeVars>>

\* what a PLAN phase and an EDIT phase handed to should_review may look like
PlanProbes == [mode : {"PLAN"}, tokens : {50000}, success : BOOLEAN]
EditProbes ==
    [mode : {"EDIT"}, tokens : {ReviewTokens, ReviewTokens + 1, 25000},
     success : BOOLEAN]
Probes == {<<p, e>> : p \in PlanProbes, e \in EditProbes}

\* a controller just constructed, and phases to ask should_review about
WorkflowInit ==
    /\ ServerInit
    /\ connection_count = 0
    /\ handler = [c \in Conns |-> "none"]
    /\ acceptor = "accepting"
    /\ TrackerNew
    /\ BridgeNew
    /\ cmd_queue = <<>>
    /\ handling = "none"
    /\ commands_processed = 0
    /\ error_count = 0
    /\ sent_log = <<>>
    /\ handled_log = <<>>
    /\ wf_pc = "idle"
    /\ phases = <<>>
    /\ total_tokens = 0
    /\ wf_result = NoResult
    /\ probe \in Probes
    /\ probe_review = "unasked"

WorkflowNext ==
    \/ StartWorkflow
    \/ ExecutePlanPhase
    \/ ExecuteEditPhase
    \/ ExecuteReviewPhase
    \/ ExecuteGruntPhase
    \/ AskShouldReview

WorkflowSpec == WorkflowInit /\ [][WorkflowNext]_vars

(* ------------------------------- reaper -------------------------------- *)
\* main_complex: the task main spawns, one turn of its loop: interval.tick()
\* and cleanup_stale_sessions(&sessions), which tears down (child killed,
\* entry removed) every entry whose last_activity is older than the threshold
ReaperSweep ==
    /\ now < MaxSweeps
    /\ now' = now + 1
    /\ LET stale == {id \in sessions : now + 1 - last_activity[id] > StaleSweeps} IN
       /\ sessions' = sessions \ stale
       /\ last_activity' = [id \in sessions \ stale |-> last_activity[id]]
       /\ child' = [c \in Conns |->
                      IF session_id[c] \in stale THEN "killed" ELSE child[c]]
       /\ kills' = [c \in Conns |->
                      IF session_id[c] \in stale THEN kills[c] + 1 ELSE kills[c]]
    /\ UNCHANGED <<connection_count, handler, exit, session_id, pty, geom,
                   taskVars, pty_read, ws_out, inVars, msg, active_at,
                   otherVars>>

\* one handle_connection task next to the reaper task
ReaperNext == Next \/ ReaperSweep

ReaperSpec == Init /\ [][ReaperNext]_vars

\* a text frame in hand, or a resize applied, counts as one unit of traffic
TextLoad(n) ==
    IF msg[n] # NoText \/ geom[n] \notin {<<0, 0>>, <<DefaultRows, DefaultCols>>}
    THEN 1 ELSE 0

\* the whole server: main's accept loop and every connection's tasks
RECURSIVE Traffic(_)
Traffic(n) ==
    IF n = 0 THEN 0
    ELSE Len(client_bin[n]) + Len(pty_read[n]) + TextLoad(n) + Traffic(n - 1)

ServerNext ==
    \/ Accept
    \/ AcceptError
    \/ \E c \in Conns :
       \/ Quiet(c)
       \/ Traffic(MaxConns) < MaxTraffic /\ RecvBinary(c)
       \/ Traffic(MaxConns) < MaxTraffic /\ RecvText(c)
       \/ Traffic(MaxConns) < MaxTraffic /\ ReaderRead(c)

ServerSpec == ServerStart /\ [][ServerNext]_vars

(* ------------------------------- claims -------------------------------- *)
\* the session of connection c has been created: PtySession::new returned Ok
Spawned(c) == child[c] # "none"

\* Terminated: handle_connection has returned and the child has been killed
Terminated(c) == handler[c] = "done" /\ child[c] = "killed"

\* a relay task of connection c can still do I/O
ReaderLive(c) == reader[c] \in {"spawned", "running"}
WriterLive(c) == writer[c] = "running"

\* the chunks of the binary frames sent to the client, in order
RECURSIVE BinaryChunks(_)
BinaryChunks(frames) ==
    IF frames = <<>> THEN <<>>
    ELSE LET rest == BinaryChunks(Tail(frames)) IN
         IF Head(frames).type = "binary"
         THEN <<[off |-> Head(frames).off, len |-> Head(frames).len]>> \o rest
         ELSE rest

\* C1: whatever ends a session, its child is killed exactly once and its
\* registry entry is removed exactly once: the entry is there while the child
\* runs, and once the handler has returned the child has been killed by one
\* kill and the entry is gone; a child is never killed twice.
C1_TeardownExactlyOnce ==
    \A c \in Conns :
       /\ kills[c] <= 1
       /\ child[c] = "running" => session_id[c] \in sessions
       /\ (handler[c] = "done" /\ Spawned(c)) =>
             kills[c] = 1 /\ session_id[c] \notin sessions

\* The part of C1 that does not speak of the registry: one kill per spawned
\* session, made by the time the handler has returned, on every path.
KilledExactlyOnce ==
    \A c \in Conns :
       /\ kills[c] <= 1
       /\ kills[c] = 1 <=> child[c] = "killed"
       /\ (handler[c] = "done" /\ Spawned(c)) => kills[c] = 1

\* C2: on every connection, a binary frame is sent only after the session
\* frame of that connection: the first frame sent is the session frame with
\* the session's id, and it is sent once.
C2_SessionFrameFirst ==
    \A c \in Conns :
       /\ ws_out[c] # <<>> => ws_out[c][1] = SessionFrame(session_id[c])
       /\ \A i \in 2..Len(ws_out[c]) : ws_out[c][i].type = "binary"

C2_Witness ==
    \E c \in Conns :
       /\ Len(ws_out[c]) >= 2
       /\ ws_out[c][1].cmd = "session"
       /\ ws_out[c][2].type = "binary"

\* C3: once the reader task has seen EOF or a read error, the session reaches
\* Terminated with no further action of the client: whenever the reader has
\* ended that way and the server has no step left that it can take unasked,
\* the session is Terminated.
C3_PtyEofTearsDown ==
    \A c \in Conns :
       (reader[c] \in {"eof", "read_error"} /\ ~ENABLED ServerStep(c))
          => Terminated(c)

\* C4: on every path by which the handler of a spawned session returns, the
\* relay tasks have been aborted and do no further I/O, the child is killed,
\* the PTY is released and the registry holds no entry of the session.
C4_TeardownOnEveryExit ==
    \A c \in Conns :
       (handler[c] = "done" /\ Spawned(c)) =>
          /\ child[c] = "killed"
          /\ pty[c] = "closed"
          /\ ~ReaderLive(c)
          /\ ~WriterLive(c)
          /\ session_id[c] \notin sessions

\* C5: a Close frame, the end of the stream or a receive error makes the
\* handler leave its receive loop, and then the abort calls are made on both
\* relay tasks (the writer task stops) and the child is killed by the one
\* teardown.
ClientClosed(c) == exit[c] \in {"close", "ws_error", "stream_end"}

C5_ClientCloseTearsDown ==
    \A c \in Conns :
       ClientClosed(c) ~>
          /\ Terminated(c)
          /\ kills[c] = 1
          /\ reader_abort[c]
          /\ reader[c] # "spawned"
          /\ ~WriterLive(c)

C5_Witness ==
    \E c \in Conns :
       /\ exit[c] = "close"
       /\ Terminated(c)
       /\ reader_abort[c]
       /\ writer[c] = "aborted"

\* C6: once the writer task has stopped on a failed send, the session is torn
\* down even if the client sends nothing more: whenever the writer has stopped
\* that way and the server has no step left that it can take unasked, the
\* session is Terminated.
C6_SendErrorTearsDown ==
    \A c \in Conns :
       (writer[c] = "send_error" /\ ~ENABLED ServerStep(c)) => Terminated(c)

\* C7: when PtySession::new fails, an Error frame is sent to the client, and
\* the connection gets no session frame and no registry entry.
C7_SpawnFailureSendsError ==
    \A c \in Conns :
       exit[c] \in {"openpty_failed", "spawn_failed"} =>
          /\ \E i \in 1..Len(ws_out[c]) : ws_out[c][i] = ErrorFrame
          /\ \A i \in 1..Len(ws_out[c]) : ws_out[c][i].cmd # "session"
          /\ session_id[c] \notin sessions

\* the step in which the handshake of connection c fails
HandshakeFails(c) == handler[c] = "handshake" /\ exit'[c] = "handshake_failed"

C9_InputPassthrough ==
    \A c \in Conns :
       /\ IsPrefix(pty_input[c], client_bin[c])
       /\ handler[c] = "loop" =>
             /\ pty_input[c] = client_bin[c]
             /\ flushed[c] = Len(pty_input[c])

C9_Witness ==
    \E c \in Conns :
       /\ handler[c] = "loop"
       /\ pty_input[c] = <<"b", "a">>
       /\ flushed[c] = 2

\* C10: every frame sent carries one chunk of 1..4096 bytes; the chunks sent,
\* followed by those waiting in the channel, are a prefix of the chunks read
\* from the PTY, in read order, and all of them while the writer task runs;
\* so the bytes sent are a prefix of the bytes read.
C10_OutputRelay ==
    \A c \in Conns :
       LET sent == BinaryChunks(ws_out[c]) IN
       /\ \A i \in 1..Len(sent) :
             /\ sent[i].len \in 1..BufSize
             /\ sent[i].off = IF i = 1 THEN 0 ELSE sent[i-1].off + sent[i-1].len
       /\ IsPrefix(sent \o chan[c], pty_read[c])
       /\ WriterLive(c) => sent \o chan[c] = pty_read[c]

C10_Witness ==
    \E c \in Conns :
       LET sent == BinaryChunks(ws_out[c]) IN
       /\ Len(sent) = 2
       /\ sent[1].len = BufSize
       /\ sent[2].len = 1

\* C11: an error of write_all or of flush on the PTY ends the handler, and by
\* the time it has returned the standard teardown has been made: both abort
\* calls, no relay task left that can do I/O, the child killed.
C11_WriteErrorTearsDown ==
    \A c \in Conns :
       (exit[c] \in {"write_error", "flush_error"} /\ handler[c] = "done") =>
          /\ Terminated(c)
          /\ reader_abort[c]
          /\ reader[c] # "spawned"
          /\ ~WriterLive(c)

\* the step in which the handler of c finishes a text frame that decodes to tag
Handles(c, tag) ==
    /\ handler[c] = "text"
    /\ handler'[c] # "text"
    /\ DecodeControl(msg[c]).tag = tag

\* C12: the geometry of a session is that of its most recent successful
\* Resize, or 24 by 80 if there was none: creation sets 24 by 80, a Resize
\* that succeeds sets exactly its (rows, cols), and no other step changes it.
C12_Geometry ==
    [][\A c \in Conns :
         LET ctrl == DecodeControl(msg[c]) IN
         IF Handles(c, "Resize") /\ handler'[c] = "loop"
         THEN geom'[c] = <<ctrl.rows, ctrl.cols>>
         ELSE IF handler[c] = "create" /\ handler'[c] = "setup"
         THEN geom'[c] = <<DefaultRows, DefaultCols>>
         ELSE geom'[c] = geom[c]]_vars

C12_Witness ==
    \E c \in Conns :
       /\ handler[c] = "loop"
       /\ child[c] = "running"
       /\ geom[c] = <<40, 120>>

\* C13: the step that processes a Resize leaves the bytes queued from the PTY
\* to the client, the bytes sent, and the bytes written to the PTY as they
\* were, order included; a Resize that succeeds changes nothing of the session
\* but its geometry.
C13_ResizeLeavesData ==
    [][\A c \in Conns :
         Handles(c, "Resize") =>
            /\ UNCHANGED <<chan, ws_out, pty_read, inVars>>
            /\ handler'[c] = "loop" =>
                  UNCHANGED <<exit, session_id, procVars, taskVars>>]_vars

C13_Witness ==
    \E c \in Conns :
       /\ geom[c] = <<30, 100>>
       /\ chan[c] # <<>>
       /\ pty_input[c] # <<>>
       /\ Len(ws_out[c]) >= 2

\* C14: a Resize whose PTY resize fails is not fatal: a session that has had a
\* resize error is still Active, its child runs and its writer task relays.
C14_ResizeFailureNonFatal ==
    \A c \in Conns :
       exit[c] = "resize_error" =>
          /\ handler[c] \in {"loop", "text"}
          /\ child[c] = "running"
          /\ WriterLive(c)

\* the step of connection c sends frame to the client, or queues something
\* for the writer task to send
Answers(c, frame) ==
    \/ ws_out'[c] = Append(ws_out[c], frame)
    \/ Len(chan'[c]) = Len(chan[c]) + 1

\* C15: every Ping control message received on a live session is answered
\* with a Pong: the step that processes the Ping sends a Pong frame to that
\* client or queues one for sending.
C15_PingAnswered ==
    [][\A c \in Conns : Handles(c, "Ping") => Answers(c, PongFrame)]_vars

\* C16: every Metrics control message received on a live session is answered
\* with a metrics snapshot: the step that processes it sends a metrics frame
\* to that client or queues one for sending.
C16_MetricsAnswered ==
    [][\A c \in Conns : Handles(c, "Metrics") => Answers(c, MetricsFrame)]_vars

\* the text frames that hold no control message: an unknown cmd, or a resize
\* whose rows or cols do not fit u16
MalformedTexts ==
    {t \in Texts : t.cmd \notin {"resize", "ping", "pong", "metrics"}
                      \/ t.rows > U16Max \/ t.cols > U16Max}

\* C17: a text frame that does not decode to a control message is ignored:
\* the step that processes it takes the handler back to its receive loop and
\* changes nothing else, so no teardown starts and geometry, child, tasks,
\* channel and the bytes relayed in both directions are as they were.
C17_MalformedTextIgnored ==
    [][\A c \in Conns :
         (handler[c] = "text" /\ handler'[c] # "text" /\ msg[c] \in MalformedTexts) =>
            /\ handler'[c] = "loop"
            /\ UNCHANGED <<connection_count, regVars, otherVars, active_at,
                           exit, session_id, procVars, geom, taskVars,
                           pty_read, ws_out, inVars>>]_vars

C17_Witness ==
    \E c \in Conns :
       /\ handler[c] = "text"
       /\ msg[c] \in MalformedTexts
       /\ ENABLED HandleText(c)
       /\ chan[c] # <<>>
       /\ pty_input[c] # <<>>
       /\ geom[c] = <<40, 120>>

\* C18: the registry tells which sessions are live: a session id is in the
\* registry exactly when that session has been created and has not been torn
\* down, that is, while its child runs.
C18_RegistryAuthoritative ==
    \A c \in Conns : session_id[c] \in sessions <=> child[c] = "running"

C20_ActivityTracked ==
    \A c \in Conns :
       child[c] = "running" =>
          /\ session_id[c] \in DOMAIN last_activity
          /\ last_activity[session_id[c]] = active_at[c]

\* the last n samples of a sequence
LastN(ms, n) == SubSeq(ms, Len(ms) - Min(n, Len(ms)) + 1, Len(ms))

\* C21: the history is a ring buffer of capacity 1000: it never holds more
\* than 1000 samples, and it always holds the most recent 1000 (or all, if
\* fewer) of the samples recorded, the oldest being evicted for a new one.
C21_RingBuffer ==
    /\ Len(measurements) <= Capacity
    /\ measurements = LastN(recorded, Capacity)

\* C22: the high-latency count is the number of recorded samples strictly
\* greater than 50 ms: exactly 50 ms is not counted, a sample between 50 ms
\* and 51 ms is.
C22_HighLatencyCount ==
    high_latency_count =
       Cardinality({i \in 1..Len(recorded) : recorded[i] > HighLatencyMs * 1000})

\* C23: a report is made from the retained samples: its min and max are the
\* least and greatest of them and its average is their mean (in whole
\* milliseconds), so min <= average <= max, and it carries the tracker's
\* high-latency count; report changes the tracker in no way, and with no
\* sample retained it logs nothing.
C23_Report ==
    [][/\ reported' # reported =>
            LET n == Len(measurements) IN
            /\ n > 0
            /\ \A i \in 1..n : /\ reported'.min <= AsMillis(measurements[i])
                                /\ reported'.max >= AsMillis(measurements[i])
            /\ \E i \in 1..n : reported'.min = AsMillis(measurements[i])
            /\ \E i \in 1..n : reported'.max = AsMillis(measurements[i])
            /\ reported'.avg * 1000 * n <= Sum(measurements)
            /\ Sum(measurements) < (reported'.avg + 1) * 1000 * n
            /\ reported'.min <= reported'.avg
            /\ reported'.avg <= reported'.max
            /\ reported'.high = high_latency_count
            /\ UNCHANGED <<measurements, high_latency_count>>
       /\ measurements = <<>> /\ measurements' = <<>> => reported' = NoReport]_vars

C23_Witness ==
    /\ measurements = <<10000, 20000, 60000>>
    /\ reported = [avg |-> 30, min |-> 10, max |-> 60, high |-> 1]

\* C24: a latency sample is a round trip: every sample of the history was
\* recorded when the Pong matching a Ping sent before was observed, never at
\* the time the Ping was sent, and its value is the time from sending that
\* Ping to observing that Pong.
C24_SampleIsRoundTrip ==
    \A i \in 1..Len(latency_history) :
       /\ sample_by[i].by = "pong"
       /\ latency_history[i] = sample_by[i].rtt

\* C25: a session has one PTY and one child for its whole lifetime: once
\* spawned its id never changes, its child is never replaced (running, then
\* killed for good) and its PTY is never reopened; and sessions that live at
\* the same time have different ids, each with a PTY and a child of its own.
C25_OnePtyOneChild ==
    /\ [](\A c, d \in Conns :
            /\ Spawned(c) => session_id[c] \in SessionIds
            /\ child[c] = "running" => pty[c] = "open"
            /\ (c # d /\ Spawned(c) /\ Spawned(d)) => session_id[c] # session_id[d])
    /\ [][\A c \in Conns :
            Spawned(c) =>
               /\ session_id'[c] = session_id[c]
               /\ child'[c] \in {child[c], "killed"}
               /\ pty'[c] \in {pty[c], "closed"}]_vars

C25_Witness ==
    \E c, d \in Conns :
       /\ c # d
       /\ child[c] = "running" /\ pty[c] = "open"
       /\ child[d] = "running" /\ pty[d] = "open"
       /\ session_id[c] # session_id[d]

\* all the state of connection c
ConnState(c) ==
    <<handler[c], exit[c], session_id[c], child[c], kills[c], pty[c], geom[c],
      reader[c], reader_abort[c], writer[c], chan[c], pty_read[c], ws_out[c],
      client_bin[c], pty_input[c], flushed[c], msg[c], active_at[c]>>

\* C26: a failure or termination in one session changes only that session: a
\* step that changes anything of one connection leaves every other connection
\* as it was (child, geometry, queued bytes and all), and every session goes
\* on relaying its bytes in order in both directions.
C26_Isolation ==
    /\ [](C9_InputPassthrough /\ C10_OutputRelay)
    /\ [][\A c, d \in Conns :
            (c # d /\ ConnState(c)' # ConnState(c)) =>
               ConnState(d)' = ConnState(d)]_vars

C26_Witness ==
    \E c, d \in Conns :
       /\ c # d
       /\ exit[c] = "ws_error" /\ Terminated(c)
       /\ child[d] = "running" /\ handler[d] = "loop"
       /\ chan[d] # <<>>

\* C27: once bound, the server never stops accepting: whatever accept errors,
\* handshake failures, spawn failures and session failures have happened,
\* the accept loop is running and takes the next connection.
C27_AcceptLoopNeverStops ==
    /\ acceptor = "accepting"
    /\ connection_count < MaxConns => ENABLED Accept

C27_Witness ==
    \E c, d \in Conns :
       /\ c < d
       /\ exit[c] \in {"openpty_failed", "spawn_failed", "session_send_failed"}
       /\ handler[d] = "loop"
       /\ connection_count = d

\* C28: operations on one session's PTY are serialized: client input is
\* written to the PTY only by a step the handler takes from the top of its
\* message loop, a resize is applied only by the step that handles a text
\* frame, and neither step does the other's work, so that a write and a
\* resize of the same PTY never overlap.
C28_PtyOpsSerialized ==
    [][\A c \in Conns :
        /\ pty_input'[c] # pty_input[c] =>
              handler[c] = "loop" /\ geom'[c] = geom[c]
        /\ (Spawned(c) /\ geom'[c] # geom[c]) =>
              handler[c] = "text" /\ pty_input'[c] = pty_input[c]]_vars

C28_Witness ==
    \E c \in Conns :
       /\ pty_input[c] # <<>>
       /\ geom[c] \notin {<<0, 0>>, <<DefaultRows, DefaultCols>>}
       /\ handler[c] = "loop"

C30_ConnectionCounter ==
    /\ [](\A c \in Conns : handler[c] # "none" <=> c <= connection_count)
    /\ [][\/ connection_count' = connection_count
          \/ /\ connection_count' = connection_count + 1
             /\ handler[connection_count'] = "none"
             /\ handler'[connection_count'] = "handshake"]_vars

C30_Witness ==
    /\ connection_count = 2
    /\ exit[1] = "handshake_failed"
    /\ handler[2] = "handshake"

\* the early error returns of handle_connection after the child was spawned
EarlyReturns ==
    {"clone_reader_failed", "take_writer_failed", "session_send_failed",
     "flush_error", "resize_error"}

\* C31: no orphaned child: whenever the handler of a session whose child was
\* spawned has returned, by the cleanup at the end of its loop or by any of
\* its early error returns, the child is killed and its PTY released.
C31_NoOrphanedChild ==
    \A c \in Conns :
       (handler[c] = "done" /\ Spawned(c)) =>
          /\ child[c] = "killed"
          /\ pty[c] = "closed"
          /\ exit[c] \in EarlyReturns \cup {"close", "ws_error", "stream_end",
                                           "write_error"}

C31_Witness ==
    \E c \in Conns :
       /\ handler[c] = "done"
       /\ exit[c] \in EarlyReturns
       /\ child[c] = "killed"
       /\ ReaderLive(c)

\* C32: the bridge's latency_history never holds more than 100 samples,
\* whatever the interleaving of measure_latency calls and handled Pongs, and
\* a sample added to a full history takes the place of the oldest: the other
\* samples move up by one and the new one is last.
C32_HistoryBounded ==
    /\ [](Len(latency_history) <= HistoryCap)
    /\ [][latency_history' # latency_history =>
            LET h  == latency_history
                h2 == latency_history'
            IN  /\ Len(h2) = Min(Len(h) + 1, HistoryCap)
                /\ SubSeq(h2, 1, Len(h2) - 1) =
                      (IF Len(h) = HistoryCap THEN Tail(h) ELSE h)]_vars

C32_Witness ==
    /\ Len(latency_history) = HistoryCap
    /\ sample_by[HistoryCap].by = "pong"
    /\ sample_by[HistoryCap - 1].by = "measure_latency"
    /\ pings_sent = MaxPings

\* C33: whenever no connect or disconnect call is in progress, is_connected()
\* is true exactly when a connection is held.
C33_ConnectedIffHeld ==
    call \notin {"connect", "disconnect"} => (connected <=> connection # 0)

\* the handler tasks that have been spawned and have not left their loop
RunningTasks == {k \in Socks : task[k] \notin {"none", "stopped"}}

\* C34: while a message-handler task runs, every send_input, resize_pty,
\* measure_latency or disconnect that was called eventually gets the
\* connection lock and completes, even if the server sends nothing more.
C34_CallsComplete ==
    \A m \in Methods \ {"connect"} :
       (call = m /\ RunningTasks # {}) ~> (call = "idle")

\* the stream of the connection held yields its end, or an error
ServerEnded == SocketIs("ended") \/ SocketIs("broken")

\* C35: when the server has ended the connection (the stream yields its end,
\* or an error), the handler tasks eventually stop and is_connected()
\* eventually is false, unless a caller has replaced or taken the connection
\* in the meantime.
C35_ServerEndStopsHandler ==
    (ServerEnded /\ RunningTasks # {})
       ~> ((RunningTasks = {} /\ ~connected) \/ ~ServerEnded)

\* C36: after any sequence of connect and disconnect calls at most one
\* message-handler task is running and at most one connection is open.
C36_OneHandlerOneConnection ==
    /\ Cardinality(RunningTasks) <= 1
    /\ Cardinality({s \in Socks : socket[s] \in {"open", "ended", "broken"}}) <= 1

\* the commands of a log of handled commands
CmdsOf(log) == [i \in 1..Len(log) |-> log[i].cmd]

\* the command being handled, as a sequence
InHand == IF handling \in Commands THEN <<handling>> ELSE <<>>

\* C37: the command processor handles commands one at a time in the order
\* they were sent: the commands handled, the one in hand and the ones still
\* queued are, in this order, the commands sent; and every handled command
\* incremented exactly one counter, commands_processed when its handler
\* returned Ok and error_count when it returned an error, so that the two
\* counters add up to the number of commands handled.
C37_CommandsCounted ==
    /\ [](/\ handling # "exited" =>
               sent_log = CmdsOf(handled_log) \o InHand \o cmd_queue
          /\ IsPrefix(CmdsOf(handled_log), sent_log)
          /\ commands_processed =
                Cardinality({i \in 1..Len(handled_log) : handled_log[i].ok})
          /\ error_count =
                Cardinality({i \in 1..Len(handled_log) : ~handled_log[i].ok})
          /\ commands_processed + error_count = Len(handled_log))
    /\ [][/\ (handling' \in Commands /\ handling' # handling) => handling = "none"
          /\ (commands_processed' + error_count') - (commands_processed + error_count)
                = Len(handled_log') - Len(handled_log)
          /\ Len(handled_log') - Len(handled_log) \in {0, 1}]_vars

C37_Witness ==
    /\ Len(handled_log) = MaxCommands
    /\ commands_processed >= 1
    /\ error_count >= 1
    /\ CmdsOf(handled_log) = sent_log
    /\ sent_log[1] # sent_log[2]

\* the modes of a list of phases
ModesOf(ps) == [i \in 1..Len(ps) |-> ps[i].mode]

RECURSIVE TokensOf(_)
\* the sum of the tokens of a list of phases
TokensOf(ps) == IF ps = <<>> THEN 0 ELSE ps[1].tokens + TokensOf(Tail(ps))

\* the EDIT phase of ps asks for a review
EditAsksReview(ps) ==
    \E i \in 1..Len(ps) :
       /\ ps[i].mode = "EDIT"
       /\ (ps[i].tokens > ReviewTokens \/ ~ps[i].success)

\* C38: execute_workflow runs PLAN, EDIT, REVIEW, GRUNT in this order, with
\* REVIEW exactly when the EDIT phase used more than 20000 tokens or did not
\* succeed (and should_review answers just that of any PLAN and EDIT phases
\* handed to it); the result lists the phases in that order and its
\* tokens_used is the sum of their tokens.
C38_WorkflowPhases ==
    /\ \/ IsPrefix(ModesOf(phases), <<"PLAN", "EDIT", "REVIEW", "GRUNT">>)
       \/ IsPrefix(ModesOf(phases), <<"PLAN", "EDIT", "GRUNT">>)
    /\ wf_pc \in {"grunt", "done"} =>
          ("REVIEW" \in {phases[i].mode : i \in 1..Len(phases)}
              <=> EditAsksReview(SubSeq(phases, 1, 2)))
    /\ wf_pc = "done" =>
          /\ wf_result.phases = phases
          /\ ModesOf(phases)[Len(phases)] = "GRUNT"
          /\ wf_result.tokens_used = TokensOf(wf_result.phases)
    /\ probe_review # "unasked" =>
          (probe_review = "review" <=> EditAsksReview(probe))

C38_Witness ==
    /\ wf_pc = "done"
    /\ ModesOf(wf_result.phases) = <<"PLAN", "EDIT", "REVIEW", "GRUNT">>
    /\ wf_result.tokens_used = 95000
    /\ probe[2].tokens = ReviewTokens /\ probe[2].success
    /\ probe_review = "no review"

====
